---- MODULE Spec2Model ----
(***************************************************************************)
(* A model of rewatch's src/helpers.rs: the upward directory searches      *)
(* (resolve_package_path, resolve_package_path_multi, get_nearest_config,  *)
(* get_workspace_root), the lexical path normaliser (to_lexical_absolute)  *)
(* and the namespace / asset naming functions.                             *)
(*                                                                         *)
(* A path is a record [abs, segs]: whether the string starts with "/" and  *)
(* the text between its separators, "." and ".." included as written.      *)
(* A string that the code inspects character by character is a sequence of *)
(* one-character strings.  An Option is a sequence of length 0 or 1.       *)
(***************************************************************************)
EXTENDS Naturals, Sequences, FiniteSets, TLC

VARIABLES
    installed,    \* filesystem: the <<directory, package>> pairs with <directory>/node_modules/<package>
    marked,       \* filesystem: the <<directory, file>> pairs with a config file <directory>/<file>
    cwd,          \* the process's current working directory, None when it cannot be determined
    pc,           \* where the running call is: "idle", "loop", "multi", "config", "done"
    op,           \* the function that was called
    args,         \* its arguments
    current_dir,  \* the local current_dir of the running upward walk
    visited,      \* history: the directories the running walk has tested, in order
    rest,         \* resolve_package_path_multi: the start directories not yet tried
    tried,        \* history: resolve_package_path_multi's inner calls, [start, result] each
    result        \* the return value of the call

vars == <<installed, marked, cwd, pc, op, args, current_dir, visited, rest, tried, result>>

---------------------------------------------------------------------------
\* Bounds of the model.

\* The longest path, in segments, given to a path function.
MaxSegs == 3

\* The longest start_dirs slice given to resolve_package_path_multi.
MaxStartDirs == 2

\* The longest string, in characters, given to format_namespaced_module_name.
MaxLen == 4

---------------------------------------------------------------------------
\* Options and sequences.

None == <<>>

Some(x) == <<x>>

Front(s) == SubSeq(s, 1, Len(s) - 1)

Last(s) == s[Len(s)]

SeqUpTo(S, n) == UNION {[1..k -> S] : k \in 0..n}

---------------------------------------------------------------------------
\* The filesystem the searches run against.

\* The directories that exist, each the sequence of names from the root.
\* There are no symbolic links: a directory has one name.
Dirs == {<<>>, <<"a">>, <<"a", "b">>, <<"b">>}

\* What a path segment can be: a name, "." or "..".
Segs == {"a", "b", ".", ".."}

PackageNames == {"rescript", "react"}

ConfigFiles == {"bsconfig.json", "rescript.json"}

Paths == [abs : BOOLEAN, segs : SeqUpTo(Segs, MaxSegs)]

\* The directory reached from directory d (an Option) by following segs the
\* way the operating system does: "." stays, ".." goes to the parent (the
\* root is its own parent), a name enters that subdirectory, which must exist.
RECURSIVE Follow(_, _)
Follow(d, segs) ==
    IF d = None \/ segs = <<>> THEN d
    ELSE LET s == Head(segs)
             here == d[1]
         IN  IF s = "." THEN Follow(d, Tail(segs))
             ELSE IF s = ".." THEN Follow(Some(Front(here)), Tail(segs))
             ELSE IF Append(here, s) \in Dirs THEN Follow(Some(Append(here, s)), Tail(segs))
             ELSE None

\* The directory a path names, None when it names none.
RealDir(p) == Follow(IF p.abs THEN Some(<<>>) ELSE cwd, p.segs)

---------------------------------------------------------------------------
\* std::path as helpers.rs uses it.

\* Path::components: a leading "/" is RootDir, "." is kept only when it leads
\* a relative path, every other "." is skipped.
RECURSIVE SkipCurDir(_)
SkipCurDir(segs) ==
    IF segs = <<>> THEN <<>>
    ELSE IF Head(segs) = "." THEN SkipCurDir(Tail(segs))
    ELSE <<Head(segs)>> \o SkipCurDir(Tail(segs))

components(p) ==
    IF p.abs THEN <<"/">> \o SkipCurDir(p.segs)
    ELSE IF p.segs # <<>> /\ Head(p.segs) = "." THEN <<".">> \o SkipCurDir(Tail(p.segs))
    ELSE SkipCurDir(p.segs)

\* Components::as_path.
as_path(comps) ==
    IF comps # <<>> /\ Head(comps) = "/" THEN [abs |-> TRUE, segs |-> Tail(comps)]
    ELSE [abs |-> FALSE, segs |-> comps]

is_relative(p) == ~p.abs

\* parent with the end of the walk lost: the root and the empty path are
\* their own parents.
parent_never_none(p) ==
    LET comps == components(p)
    IN  IF comps = <<>> \/ Last(comps) = "/" THEN Some(p)
        ELSE Some(as_path(Front(comps)))

\* Path::parent: the path without its final component; None when the path
\* ends in the root or is empty.  It is lexical: the parent of "x/.." is "x".
parent(p) ==
    LET comps == components(p)
    IN  IF comps = <<>> \/ Last(comps) = "/" THEN None
        ELSE Some(as_path(Front(comps)))

\* Path::join with a single relative name.
join(p, name) == [p EXCEPT !.segs = Append(@, name)]

\* Path::exists for the paths the searches build: <dir>/node_modules/<package>
\* and <dir>/<config file>.
exists(p) ==
    LET n == Len(p.segs)
    IN  IF n >= 2 /\ p.segs[n - 1] = "node_modules"
        THEN LET d == RealDir([p EXCEPT !.segs = SubSeq(@, 1, n - 2)])
             IN  d # None /\ <<d[1], p.segs[n]>> \in installed
        ELSE IF n >= 1 /\ p.segs[n] \in ConfigFiles
        THEN LET d == RealDir([p EXCEPT !.segs = Front(@)])
             IN  d # None /\ <<d[1], p.segs[n]>> \in marked
        ELSE RealDir(p) # None

\* Path::canonicalize: the absolute path of an existing directory, None
\* (an Err) when there is none; the empty path never canonicalizes.
canonicalize(p) ==
    IF ~p.abs /\ p.segs = <<>> THEN None
    ELSE LET d == RealDir(p)
         IN  IF d = None THEN None ELSE Some([abs |-> TRUE, segs |-> d[1]])

---------------------------------------------------------------------------
\* resolve_package_path and resolve_package_path_multi.

\* resolve_package_path, lines 70-77: current_dir before the loop.
AbsoluteStart(start_dir) ==
    IF is_relative(start_dir) /\ canonicalize(start_dir) # None
    THEN canonicalize(start_dir)[1]
    ELSE start_dir

\* The call resolve_package_path(start_dir, package_name).
resolve_package_path(start_dir, package_name) ==
    /\ pc = "idle"
    /\ op' = "resolve_package_path"
    /\ args' = [start_dirs |-> <<start_dir>>, package_name |-> package_name]
    /\ current_dir' = AbsoluteStart(start_dir)
    /\ visited' = <<>>
    /\ pc' = "loop"
    /\ UNCHANGED <<installed, marked, cwd, rest, tried, result>>

\* WalkReturns without the early return of resolve_package_path_multi: a
\* found path is remembered and the loop goes on.
WalkReturnsKeepsGoing(r) ==
    IF op = "resolve_package_path_multi"
    THEN /\ tried' = Append(tried, [start |-> Head(rest), result |-> r])
         /\ rest' = Tail(rest)
         /\ pc' = "multi"
         /\ result' = IF r # None THEN r ELSE result
    ELSE /\ result' = r
         /\ pc' = "done"
         /\ UNCHANGED <<rest, tried>>

\* What the caller of the walk does with its return value r: the top-level
\* call returns it; resolve_package_path_multi returns a Some and goes on to
\* the next start directory on None.
WalkReturns(r) ==
    IF op = "resolve_package_path_multi"
    THEN /\ tried' = Append(tried, [start |-> Head(rest), result |-> r])
         /\ IF r # None
            THEN /\ result' = r
                 /\ pc' = "done"
                 /\ rest' = rest
            ELSE /\ rest' = Tail(rest)
                 /\ pc' = "multi"
                 /\ result' = result
    ELSE /\ result' = r
         /\ pc' = "done"
         /\ UNCHANGED <<rest, tried>>

\* One iteration of resolve_package_path's loop.
resolve_loop ==
    /\ pc = "loop"
    /\ LET node_modules_path == join(join(current_dir, "node_modules"), args.package_name)
       IN  /\ visited' = Append(visited, current_dir)
           /\ IF exists(node_modules_path)
              THEN /\ WalkReturns(Some(node_modules_path))
                   /\ current_dir' = current_dir
              ELSE IF parent(current_dir) # None
              THEN /\ current_dir' = parent(current_dir)[1]
                   /\ UNCHANGED <<pc, rest, tried, result>>
              ELSE /\ WalkReturns(None)
                   /\ current_dir' = current_dir
    /\ UNCHANGED <<installed, marked, cwd, op, args>>

\* The call resolve_package_path_multi(start_dirs, package_name).
resolve_package_path_multi(start_dirs, package_name) ==
    /\ pc = "idle"
    /\ op' = "resolve_package_path_multi"
    /\ args' = [start_dirs |-> start_dirs, package_name |-> package_name]
    /\ rest' = start_dirs
    /\ tried' = <<>>
    /\ pc' = "multi"
    /\ UNCHANGED <<installed, marked, cwd, current_dir, visited, result>>

\* The head of resolve_package_path_multi's for loop: the next start
\* directory is handed to resolve_package_path, or the slice is exhausted.
multi_next ==
    /\ pc = "multi"
    /\ IF rest = <<>>
       THEN /\ result' = None
            /\ pc' = "done"
            /\ UNCHANGED <<current_dir, visited>>
       ELSE /\ current_dir' = AbsoluteStart(Head(rest))
            /\ visited' = <<>>
            /\ pc' = "loop"
            /\ result' = result
    /\ UNCHANGED <<installed, marked, cwd, op, args, rest, tried>>

---------------------------------------------------------------------------
\* get_nearest_config and get_workspace_root.

has_rescript_config(path) ==
    exists(join(path, "bsconfig.json")) \/ exists(join(path, "rescript.json"))

\* The call get_nearest_config(path_buf).
get_nearest_config(path_buf) ==
    /\ pc = "idle"
    /\ op' = "get_nearest_config"
    /\ args' = [path |-> path_buf]
    /\ current_dir' = path_buf
    /\ visited' = <<>>
    /\ pc' = "config"
    /\ UNCHANGED <<installed, marked, cwd, rest, tried, result>>

\* The call get_workspace_root(package_root): get_nearest_config on the
\* parent of package_root, None when it has no parent.
get_workspace_root(package_root) ==
    /\ pc = "idle"
    /\ op' = "get_workspace_root"
    /\ args' = [path |-> package_root]
    /\ visited' = <<>>
    /\ IF parent(package_root) = None
       THEN /\ result' = None
            /\ pc' = "done"
            /\ current_dir' = current_dir
       ELSE /\ current_dir' = parent(package_root)[1]
            /\ pc' = "config"
            /\ result' = result
    /\ UNCHANGED <<installed, marked, cwd, rest, tried>>

\* One iteration of get_nearest_config's loop.
config_loop ==
    /\ pc = "config"
    /\ visited' = Append(visited, current_dir)
    /\ IF has_rescript_config(current_dir)
       THEN /\ result' = Some(current_dir)
            /\ pc' = "done"
            /\ current_dir' = current_dir
       ELSE IF parent(current_dir) = None
       THEN /\ result' = None
            /\ pc' = "done"
            /\ current_dir' = current_dir
       ELSE /\ current_dir' = parent(current_dir)[1]
            /\ UNCHANGED <<pc, result>>
    /\ UNCHANGED <<installed, marked, cwd, op, args, rest, tried>>

---------------------------------------------------------------------------
\* to_lexical_absolute and get_abs_path.

\* PathBuf::new.
EmptyPath == [abs |-> FALSE, segs |-> <<>>]

\* std::env::current_dir: None is its Err.
env_current_dir == IF cwd = None THEN None ELSE Some([abs |-> TRUE, segs |-> cwd[1]])

\* pop that empties the buffer at the root.
pop_past_root(buf) == IF parent(buf) = None THEN EmptyPath ELSE parent(buf)[1]

\* PathBuf::pop: truncate to the parent, nothing when there is none.
pop(buf) == IF parent(buf) = None THEN buf ELSE parent(buf)[1]

\* PathBuf::push of one component: the root replaces the buffer, any other
\* component is appended.
push(buf, component) ==
    IF component = "/" THEN [abs |-> TRUE, segs |-> <<>>] ELSE join(buf, component)

\* The for loop of to_lexical_absolute over the components.
RECURSIVE LexicalLoop(_, _)
LexicalLoop(absolute, comps) ==
    IF comps = <<>> THEN absolute
    ELSE LET component == Head(comps)
         IN  IF component = "." THEN LexicalLoop(absolute, Tail(comps))
             ELSE IF component = ".." THEN LexicalLoop(pop(absolute), Tail(comps))
             ELSE LexicalLoop(push(absolute, component), Tail(comps))

\* to_lexical_absolute as a value: Some(path) is Ok(path), None the io::Error
\* of current_dir.
LexicalAbsolute(path) ==
    IF path.abs THEN Some(LexicalLoop(EmptyPath, components(path)))
    ELSE IF env_current_dir = None THEN None
    ELSE Some(LexicalLoop(env_current_dir[1], components(path)))

\* The call path.to_lexical_absolute().
to_lexical_absolute(path) ==
    /\ pc = "idle"
    /\ op' = "to_lexical_absolute"
    /\ args' = [path |-> path]
    /\ result' = LexicalAbsolute(path)
    /\ pc' = "done"
    /\ UNCHANGED <<installed, marked, cwd, current_dir, visited, rest, tried>>

\* The call get_abs_path(path): the expect panics on the Err.
get_abs_path(path) ==
    /\ pc = "idle"
    /\ op' = "get_abs_path"
    /\ args' = [path |-> path]
    /\ result' = IF LexicalAbsolute(path) = None THEN [panics |-> TRUE, path |-> EmptyPath]
                 ELSE [panics |-> FALSE, path |-> LexicalAbsolute(path)[1]]
    /\ pc' = "done"
    /\ UNCHANGED <<installed, marked, cwd, current_dir, visited, rest, tried>>

---------------------------------------------------------------------------
\* The package searches as a state machine.

\* The filesystems the package searches are run against: rescript installed
\* under any set of directories, react under the root.
InstalledChoices ==
    {{<<d, "rescript">> : d \in S} \cup {<<<<>>, "react">>} : S \in SUBSET Dirs}

CwdChoices == {Some(<<"a">>), None}

\* The start directory lists given to resolve_package_path_multi.
MultiStartDirs ==
    {[abs |-> TRUE, segs |-> <<"a", "b">>], [abs |-> TRUE, segs |-> <<"b">>],
     [abs |-> FALSE, segs |-> <<"b">>], [abs |-> FALSE, segs |-> <<"a">>]}

Idle ==
    /\ pc = "idle"
    /\ op = "none"
    /\ args = <<>>
    /\ current_dir = [abs |-> FALSE, segs |-> <<>>]
    /\ visited = <<>>
    /\ rest = <<>>
    /\ tried = <<>>
    /\ result = None

Init ==
    /\ installed \in InstalledChoices
    /\ marked = {}
    /\ cwd \in CwdChoices
    /\ Idle

call_resolve_package_path ==
    /\ pc = "idle"
    /\ \E start_dir \in Paths, package_name \in PackageNames :
           resolve_package_path(start_dir, package_name)

call_resolve_package_path_multi ==
    /\ pc = "idle"
    /\ \E start_dirs \in SeqUpTo(MultiStartDirs, MaxStartDirs), package_name \in PackageNames :
           resolve_package_path_multi(start_dirs, package_name)

Next ==
    \/ call_resolve_package_path
    \/ resolve_loop
    \/ call_resolve_package_path_multi
    \/ multi_next

Spec == Init /\ [][Next]_vars

\* The loop runs to its end: nothing but the call itself is scheduled.
FairSpec == Spec /\ WF_vars(resolve_loop) /\ WF_vars(multi_next)

---------------------------------------------------------------------------
\* The config searches as a state machine.

\* The filesystems the config searches are run against: bsconfig.json in any
\* set of directories, rescript.json in none or in /a.
MarkedChoices ==
    {{<<d, "bsconfig.json">> : d \in S} \cup {<<d, "rescript.json">> : d \in T} :
        S \in SUBSET Dirs, T \in {{}, {<<"a">>}}}

InitConfig ==
    /\ installed = {}
    /\ marked \in MarkedChoices
    /\ cwd \in CwdChoices
    /\ Idle

call_get_nearest_config ==
    /\ pc = "idle"
    /\ \E path_buf \in Paths : get_nearest_config(path_buf)

call_get_workspace_root ==
    /\ pc = "idle"
    /\ \E package_root \in Paths : get_workspace_root(package_root)

NextConfig ==
    \/ call_get_nearest_config
    \/ call_get_workspace_root
    \/ config_loop

SpecConfig == InitConfig /\ [][NextConfig]_vars

---------------------------------------------------------------------------
\* The lexical normaliser as a state machine: it reads no file, only the
\* current working directory.

InitLexical ==
    /\ installed = {}
    /\ marked = {}
    /\ cwd \in {Some(d) : d \in Dirs} \cup {None}
    /\ Idle

call_to_lexical_absolute ==
    /\ pc = "idle"
    /\ \E path \in Paths : to_lexical_absolute(path)

call_get_abs_path ==
    /\ pc = "idle"
    /\ \E path \in Paths : get_abs_path(path)

NextLexical ==
    \/ call_to_lexical_absolute
    \/ call_get_abs_path

SpecLexical == InitLexical /\ [][NextLexical]_vars

---------------------------------------------------------------------------
\* Strings, as sequences of characters.

LowerChars ==
    <<"a", "b", "c", "d", "e", "f", "g", "h", "i", "j", "k", "l", "m",
      "n", "o", "p", "q", "r", "s", "t", "u", "v", "w", "x", "y", "z">>

UpperChars ==
    <<"A", "B", "C", "D", "E", "F", "G", "H", "I", "J", "K", "L", "M",
      "N", "O", "P", "Q", "R", "S", "T", "U", "V", "W", "X", "Y", "Z">>

DigitChars == {"0", "1", "2", "3", "4", "5", "6", "7", "8", "9"}

is_ascii_uppercase(c) == \E i \in DOMAIN UpperChars : UpperChars[i] = c

is_ascii_lowercase(c) == \E i \in DOMAIN LowerChars : LowerChars[i] = c

is_ascii_alphanumeric(c) ==
    is_ascii_uppercase(c) \/ is_ascii_lowercase(c) \/ c \in DigitChars

\* char::to_uppercase on the ASCII characters.
to_uppercase(c) ==
    IF is_ascii_lowercase(c)
    THEN UpperChars[CHOOSE i \in DOMAIN LowerChars : LowerChars[i] = c]
    ELSE c

\* The position of the first c in s, 0 when there is none.
RECURSIVE Find(_, _)
Find(s, c) ==
    IF s = <<>> THEN 0
    ELSE IF Head(s) = c THEN 1
    ELSE LET i == Find(Tail(s), c) IN IF i = 0 THEN 0 ELSE i + 1

\* The position of the last c in s, 0 when there is none.
RECURSIVE RFind(_, _)
RFind(s, c) ==
    IF s = <<>> THEN 0
    ELSE IF Last(s) = c THEN Len(s)
    ELSE RFind(Front(s), c)

\* str::split: the pieces of s between the occurrences of c.
RECURSIVE split(_, _)
split(s, c) ==
    LET i == Find(s, c)
    IN  IF i = 0 THEN <<s>>
        ELSE <<SubSeq(s, 1, i - 1)>> \o split(SubSeq(s, i + 1, Len(s)), c)

\* str::trim_start_matches: s without every leading c.
RECURSIVE trim_start_matches(_, _)
trim_start_matches(s, c) ==
    IF s # <<>> /\ Head(s) = c THEN trim_start_matches(Tail(s), c) ELSE s

ends_with(s, suffix) ==
    Len(suffix) <= Len(s) /\ SubSeq(s, Len(s) - Len(suffix) + 1, Len(s)) = suffix

\* The outcome of a call that panicked.
Panic == <<"panic!">>

---------------------------------------------------------------------------
\* std::path on the strings the naming functions are given.

\* Path::components of a string: the pieces between "/", the empty ones
\* skipped, and "." skipped but at the head of a relative path.
RECURSIVE SkipEmptyAndCurDir(_)
SkipEmptyAndCurDir(pieces) ==
    IF pieces = <<>> THEN <<>>
    ELSE IF Head(pieces) \in {<<>>, <<".">>} THEN SkipEmptyAndCurDir(Tail(pieces))
    ELSE <<Head(pieces)>> \o SkipEmptyAndCurDir(Tail(pieces))

str_is_absolute(s) == s # <<>> /\ Head(s) = "/"

str_components(s) ==
    LET pieces == split(s, "/")
    IN  IF ~str_is_absolute(s) /\ Head(pieces) = <<".">>
        THEN <<<<".">>>> \o SkipEmptyAndCurDir(Tail(pieces))
        ELSE SkipEmptyAndCurDir(pieces)

\* Path::file_name: the final component when it is a normal one.
file_name(s) ==
    LET comps == str_components(s)
    IN  IF comps = <<>> \/ Last(comps) \in {<<".">>, <<".", ".">>} THEN None
        ELSE Some(Last(comps))

\* rsplit_file_at_dot: <<before, after>> the last ".", each an Option.
rsplit_file_at_dot(file) ==
    LET i == RFind(file, ".")
    IN  IF file = <<".", ".">> THEN <<Some(file), None>>
        ELSE IF i = 0 THEN <<None, Some(file)>>
        ELSE IF i = 1 THEN <<Some(file), None>>
        ELSE <<Some(SubSeq(file, 1, i - 1)), Some(SubSeq(file, i + 1, Len(file)))>>

\* Path::file_stem: before.or(after).
file_stem(s) ==
    IF file_name(s) = None THEN None
    ELSE LET r == rsplit_file_at_dot(file_name(s)[1])
         IN  IF r[1] # None THEN r[1] ELSE r[2]

\* Path::extension: before.and(after).
extension(s) ==
    IF file_name(s) = None THEN None
    ELSE LET r == rsplit_file_at_dot(file_name(s)[1])
         IN  IF r[1] # None THEN r[2] ELSE None

\* The components joined by "/" again.
RECURSIVE JoinComponents(_)
JoinComponents(comps) ==
    IF comps = <<>> THEN <<>>
    ELSE IF Len(comps) = 1 THEN Head(comps)
    ELSE Head(comps) \o <<"/">> \o JoinComponents(Tail(comps))

\* Path::parent of a string: the path up to its final component, None when
\* there is none.
str_parent(s) ==
    LET comps == str_components(s)
    IN  IF comps = <<>> THEN None
        ELSE Some((IF str_is_absolute(s) THEN <<"/">> ELSE <<>>) \o JoinComponents(Front(comps)))

\* Path::join of two strings: an absolute path replaces, otherwise a
\* separator is added unless the buffer is empty or ends with one.
str_join(buf, path) ==
    IF str_is_absolute(path) THEN path
    ELSE IF buf = <<>> \/ Last(buf) = "/" THEN buf \o path
    ELSE buf \o <<"/">> \o path

---------------------------------------------------------------------------
\* packages::Namespace and packages::Package, which helpers.rs only uses.

NoNamespace == [kind |-> "NoNamespace", namespace |-> <<>>, entry |-> <<>>]

Namespace(namespace) == [kind |-> "Namespace", namespace |-> namespace, entry |-> <<>>]

NamespaceWithEntry(namespace, entry) ==
    [kind |-> "NamespaceWithEntry", namespace |-> namespace, entry |-> entry]

\* Namespace::to_suffix: the tag of a Namespace, "@" and the tag of a
\* NamespaceWithEntry (the form format_namespaced_module_name strips), None
\* for NoNamespace.
to_suffix(namespace) ==
    IF namespace.kind = "Namespace" THEN Some(namespace.namespace)
    ELSE IF namespace.kind = "NamespaceWithEntry" THEN Some(<<"@">> \o namespace.namespace)
    ELSE None

\* Package::get_ocaml_build_path and Package::get_build_path.
get_ocaml_build_path(package) == package.ocaml_build_path

get_build_path(package) == package.build_path

---------------------------------------------------------------------------
\* The naming functions.

get_basename(path) == IF file_stem(path) = None THEN Panic ELSE file_stem(path)[1]

\* capitalize that leaves the first character as it is.
capitalize_nothing(s) == s

capitalize(s) == IF s = <<>> THEN <<>> ELSE <<to_uppercase(Head(s))>> \o Tail(s)

\* add_suffix without the arm for the entry module.
add_suffix_entry_too(base, namespace) ==
    IF namespace.kind \in {"Namespace", "NamespaceWithEntry"}
    THEN base \o <<"-">> \o to_suffix(namespace)[1]
    ELSE base

add_suffix(base, namespace) ==
    IF namespace.kind = "NamespaceWithEntry" /\ namespace.entry = base THEN base
    ELSE IF namespace.kind \in {"Namespace", "NamespaceWithEntry"}
    THEN base \o <<"-">> \o to_suffix(namespace)[1]
    ELSE base

module_name_with_namespace(module_name, namespace) ==
    capitalize(add_suffix(module_name, namespace))

file_path_to_compiler_asset_basename(path, namespace) ==
    LET base == get_basename(path)
    IN  IF base = Panic THEN Panic ELSE add_suffix(base, namespace)

file_path_to_module_name(path, namespace) ==
    LET basename == file_path_to_compiler_asset_basename(path, namespace)
    IN  IF basename = Panic THEN Panic ELSE capitalize(basename)

\* path_to_ast_extension that does not look at the source extension.
path_to_ast_extension_always_ast(path) ==
    IF extension(path) = None THEN Panic ELSE <<".", "a", "s", "t">>

path_to_ast_extension(path) ==
    IF extension(path) = None THEN Panic
    ELSE IF ends_with(extension(path)[1], <<"i">>) THEN <<".", "i", "a", "s", "t">>
    ELSE <<".", "a", "s", "t">>

get_ast_path(source_file) ==
    IF str_parent(source_file) = None \/ get_basename(source_file) = Panic
       \/ path_to_ast_extension(source_file) = Panic
    THEN Panic
    ELSE str_join(str_parent(source_file)[1],
                  file_path_to_compiler_asset_basename(source_file, NoNamespace)
                      \o path_to_ast_extension(source_file))

\* The extension strings that name the two syntax-tree asset kinds.
AstExtensions == {<<"a", "s", "t">>, <<"i", "a", "s", "t">>}

\* get_compiler_asset that names every asset kind with the real namespace.
get_compiler_asset_keeps_namespace(package, namespace, source_file, ext) ==
    IF get_basename(source_file) = Panic THEN Panic
    ELSE get_ocaml_build_path(package) \o <<"/">>
             \o file_path_to_compiler_asset_basename(source_file, namespace) \o <<".">> \o ext

get_compiler_asset(package, namespace, source_file, ext) ==
    LET ns == IF ext \in AstExtensions THEN NoNamespace ELSE namespace
    IN  IF get_basename(source_file) = Panic THEN Panic
        ELSE get_ocaml_build_path(package) \o <<"/">>
                 \o file_path_to_compiler_asset_basename(source_file, ns) \o <<".">> \o ext

get_bs_compiler_asset(package, namespace, source_file, ext) ==
    LET ns == IF ext \in AstExtensions THEN NoNamespace ELSE namespace
    IN  IF str_parent(source_file) = None \/ get_basename(source_file) = Panic THEN Panic
        ELSE str_join(str_join(get_build_path(package), str_parent(source_file)[1]),
                      file_path_to_compiler_asset_basename(source_file, ns) \o ext)

is_non_exotic_module_name(module_name) ==
    IF module_name = <<>> THEN Panic
    ELSE <<is_ascii_uppercase(Head(module_name))
            /\ \A i \in 2..Len(module_name) :
                   is_ascii_alphanumeric(module_name[i]) \/ module_name[i] = "_">>

\* format_namespaced_module_name that keeps the leading "@".
format_namespaced_module_name_keeps_at(module_name) ==
    LET pieces == split(module_name, "-")
    IN  IF Len(pieces) >= 2 THEN pieces[2] \o <<".">> \o pieces[1] ELSE pieces[1]

format_namespaced_module_name(module_name) ==
    LET pieces == split(module_name, "-")
        name == pieces[1]
        namespace == IF Len(pieces) >= 2 THEN Some(trim_start_matches(pieces[2], "@")) ELSE None
    IN  IF namespace = None THEN name ELSE namespace[1] \o <<".">> \o name

---------------------------------------------------------------------------
\* The naming functions as a state machine: each call is one step.

\* A call of a function that reads nothing but its arguments.
Call(name, arguments, value) ==
    /\ pc = "idle"
    /\ op' = name
    /\ args' = arguments
    /\ result' = value
    /\ pc' = "done"
    /\ UNCHANGED <<installed, marked, cwd, current_dir, visited, rest, tried>>

\* File stems and module names: plain, capitalised, with a digit and an
\* underscore, starting with a digit.
Stems == {<<"f", "o">>, <<"F", "o">>, <<"f", "_", "1">>, <<"1", "f">>}

\* Namespace tags.
Tags == {<<"N", "s">>, <<"P">>}

Namespaces ==
    {NoNamespace} \cup {Namespace(t) : t \in Tags}
        \cup {NamespaceWithEntry(t, e) : t \in Tags, e \in Stems}

\* Source files: a stem in no directory, in a relative and in an absolute
\* one, with an implementation or interface extension or none.
SourceDirs == {<<>>, <<"s", "/">>, <<"/", "r", "/", "s", "/">>}

SourceExtensions ==
    {<<>>, <<".", "m", "l">>, <<".", "m", "l", "i">>, <<".", "r", "e", "s", "i">>}

SourceFiles == {d \o stem \o e : d \in SourceDirs, stem \in Stems, e \in SourceExtensions}

\* The extension strings callers pass as the asset kind.
AssetExtensions == AstExtensions \cup {<<"c", "m", "i">>, <<"c", "m", "j">>}

Packages ==
    {[build_path |-> <<"/", "p", "/", "b">>, ocaml_build_path |-> <<"/", "p", "/", "o">>],
     [build_path |-> <<"q", "/", "b">>, ocaml_build_path |-> <<"q", "/", "o">>]}

\* The characters of the module names given to format_namespaced_module_name.
ModuleNameChars == {"F", "B", "-", "@"}

InitNames ==
    /\ installed = {}
    /\ marked = {}
    /\ cwd = Some(<<>>)
    /\ Idle

call_add_suffix ==
    /\ pc = "idle"
    /\ \E base \in Stems, namespace \in Namespaces :
        Call("add_suffix", [base |-> base, namespace |-> namespace],
             add_suffix(base, namespace))

call_module_name_with_namespace ==
    /\ pc = "idle"
    /\ \E module_name \in Stems, namespace \in Namespaces :
        Call("module_name_with_namespace", [base |-> module_name, namespace |-> namespace],
             module_name_with_namespace(module_name, namespace))

call_file_path_to_compiler_asset_basename ==
    /\ pc = "idle"
    /\ \E path \in SourceFiles, namespace \in Namespaces :
        Call("file_path_to_compiler_asset_basename", [path |-> path, namespace |-> namespace],
             file_path_to_compiler_asset_basename(path, namespace))

call_file_path_to_module_name ==
    /\ pc = "idle"
    /\ \E path \in SourceFiles, namespace \in Namespaces :
        Call("file_path_to_module_name", [path |-> path, namespace |-> namespace],
             file_path_to_module_name(path, namespace))

call_get_ast_path ==
    /\ pc = "idle"
    /\ \E source_file \in SourceFiles :
        Call("get_ast_path", [path |-> source_file], get_ast_path(source_file))

call_get_compiler_asset ==
    /\ pc = "idle"
    /\ \E package \in Packages, namespace \in Namespaces, source_file \in SourceFiles,
       ext \in AssetExtensions :
        Call("get_compiler_asset",
             [package |-> package, namespace |-> namespace, path |-> source_file,
              extension |-> ext],
             get_compiler_asset(package, namespace, source_file, ext))

call_get_bs_compiler_asset ==
    /\ pc = "idle"
    /\ \E package \in Packages, namespace \in Namespaces, source_file \in SourceFiles,
       ext \in AssetExtensions :
        Call("get_bs_compiler_asset",
             [package |-> package, namespace |-> namespace, path |-> source_file,
              extension |-> ext],
             get_bs_compiler_asset(package, namespace, source_file, ext))

call_format_namespaced_module_name ==
    /\ pc = "idle"
    /\ \E module_name \in SeqUpTo(ModuleNameChars, MaxLen) :
        Call("format_namespaced_module_name", [module_name |-> module_name],
             format_namespaced_module_name(module_name))

NextNames ==
    \/ call_add_suffix
    \/ call_module_name_with_namespace
    \/ call_file_path_to_compiler_asset_basename
    \/ call_file_path_to_module_name
    \/ call_get_ast_path
    \/ call_get_compiler_asset
    \/ call_get_bs_compiler_asset
    \/ call_format_namespaced_module_name

SpecNames == InitNames /\ [][NextNames]_vars

---------------------------------------------------------------------------
\* What the claims about the package searches speak of.

\* The directory a path denotes, whether or not it exists: the names from the
\* root after "." and ".." are resolved.  None for a relative path when
\* there is no current working directory.
RECURSIVE Denote(_, _)
Denote(d, segs) ==
    IF d = None \/ segs = <<>> THEN d
    ELSE LET s == Head(segs)
         IN  IF s = "." THEN Denote(d, Tail(segs))
             ELSE IF s = ".." THEN Denote(Some(Front(d[1])), Tail(segs))
             ELSE Denote(Some(Append(d[1], s)), Tail(segs))

DirOf(p) == Denote(IF p.abs THEN Some(<<>>) ELSE cwd, p.segs)

\* d and its ancestors, nearest first.
RECURSIVE Ancestors(_)
Ancestors(d) == IF d = <<>> THEN <<d>> ELSE <<d>> \o Ancestors(Front(d))

\* The first directory of the sequence ds that has the package, as an Option.
RECURSIVE NearestWith(_, _)
NearestWith(ds, package_name) ==
    IF ds = <<>> THEN None
    ELSE IF <<Head(ds), package_name>> \in installed THEN Some(Head(ds))
    ELSE NearestWith(Tail(ds), package_name)

ResolveDone == pc = "done" /\ op = "resolve_package_path"

\* The directory under which a returned <dir>/node_modules/<package> lies.
FoundUnder(r) == DirOf([r EXCEPT !.segs = SubSeq(@, 1, Len(@) - 2)])

\* Whether resolve_package_path starts its walk from an absolute path.
StartsAbsolute(start_dir) == start_dir.abs \/ canonicalize(start_dir) # None

\* C1: for every start directory that is absolute or canonicalizes,
\* resolve_package_path returns the path under the nearest directory, of the
\* start directory and its ancestors, that has node_modules/<package>, and
\* None when none of them has it.
C1_NearestAncestorWins ==
    (ResolveDone /\ StartsAbsolute(args.start_dirs[1])) =>
        LET start == DirOf(args.start_dirs[1])[1]
            nearest == NearestWith(Ancestors(start), args.package_name)
        IN  IF nearest = None THEN result = None
            ELSE /\ result # None
                 /\ FoundUnder(result[1]) = nearest
                 /\ Last(result[1].segs) = args.package_name

NoParentDir(p) == \A i \in 1..Len(p.segs) : p.segs[i] # ".."

\* The walk of resolve_package_path from an absolute or canonicalizable
\* start directory without a ".." segment: it visits the start directory and
\* then each parent up to the root, and the nearest installation wins.
NormalizedStartNearestWins ==
    (ResolveDone /\ StartsAbsolute(args.start_dirs[1]) /\ NoParentDir(args.start_dirs[1])) =>
        /\ C1_NearestAncestorWins
        /\ DirOf(visited[1]) = DirOf(args.start_dirs[1])
        /\ \A i \in 1..(Len(visited) - 1) :
               /\ DirOf(visited[i])[1] # <<>>
               /\ DirOf(visited[i + 1]) = Some(Front(DirOf(visited[i])[1]))

MultiDone == pc = "done" /\ op = "resolve_package_path_multi"

\* C2: resolve_package_path_multi tries the start directories in order,
\* stops at the first whose resolve_package_path lookup succeeds and returns
\* that lookup's result; when none succeeds it has tried them all and
\* returns None.
C2_FirstMatchWins ==
    MultiDone =>
        /\ Len(tried) <= Len(args.start_dirs)
        /\ \A i \in 1..Len(tried) : tried[i].start = args.start_dirs[i]
        /\ \A i \in 1..(Len(tried) - 1) : tried[i].result = None
        /\ IF tried # <<>> /\ Last(tried).result # None
           THEN result = Last(tried).result
           ELSE result = None /\ Len(tried) = Len(args.start_dirs)
        /\ result # None =>
               /\ FoundUnder(result[1]) # None
               /\ <<FoundUnder(result[1])[1], args.package_name>> \in installed

\* C2's case: the package is found only from the second of two candidates.
C2_FoundFromSecond ==
    /\ MultiDone
    /\ Len(args.start_dirs) = 2
    /\ Len(tried) = 2
    /\ tried[1].result = None
    /\ result # None

\* C3: the upward walk of resolve_package_path visits at most one directory
\* per component of its start directory and one more, always ends, and when
\* no visited directory has the package it ends returning None at a
\* directory with no parent.
C3_WalkTerminates ==
    /\ [](op = "resolve_package_path" =>
            Len(visited) <= Len(components(AbsoluteStart(args.start_dirs[1]))) + 1)
    /\ [](ResolveDone =>
            /\ result = None <=>
                   \A i \in 1..Len(visited) :
                       ~exists(join(join(visited[i], "node_modules"), args.package_name))
            /\ result = None => parent(Last(visited)) = None)
    /\ (pc = "loop") ~> (pc \in {"done", "multi"})

\* C3's case: a relative start directory that does not canonicalize, walked
\* to the empty path without a match.
C3_NotCanonicalizableNotFound ==
    /\ ResolveDone
    /\ is_relative(args.start_dirs[1])
    /\ canonicalize(args.start_dirs[1]) = None
    /\ Len(visited) >= 2
    /\ result = None

---------------------------------------------------------------------------
\* What the claims about the config searches and the normaliser speak of.

\* Whether sequence s is a proper prefix of sequence t.
StrictPrefix(s, t) == Len(s) < Len(t) /\ SubSeq(t, 1, Len(s)) = s

\* C8: the directory get_workspace_root returns is a strict ancestor of the
\* package root, never the package root itself; stated for the package roots
\* without a ".." segment, "." and the single names among them.
C8_WorkspaceRootIsStrictAncestor ==
    (pc = "done" /\ op = "get_workspace_root" /\ result # None
        /\ NoParentDir(args.path) /\ DirOf(args.path) # None)
    => StrictPrefix(DirOf(result[1])[1], DirOf(args.path)[1])

\* get_nearest_config returns the first directory of its lexical walk that
\* holds a config file.
NearestConfigOfWalk ==
    (pc = "done" /\ op \in {"get_nearest_config", "get_workspace_root"}) =>
        /\ \A i \in 1..(Len(visited) - 1) : ~has_rescript_config(visited[i])
        /\ result # None => result[1] = Last(visited) /\ has_rescript_config(result[1])
        /\ (result = None /\ visited # <<>>) =>
               ~has_rescript_config(Last(visited)) /\ parent(Last(visited)) = None

\* C9: to_lexical_absolute fails only when the path is relative and the
\* current working directory cannot be determined; otherwise it returns the
\* absolute path of the directory the input denotes from the root or the
\* working directory ("." dropped, ".." removing the last name so far and
\* nothing at the root), with no "." or ".." left in it.
C9_LexicalAbsolute ==
    (pc = "done" /\ op = "to_lexical_absolute") =>
        /\ result = None <=> (is_relative(args.path) /\ cwd = None)
        /\ result # None =>
               /\ result[1].abs
               /\ \A i \in 1..Len(result[1].segs) : result[1].segs[i] \notin {".", ".."}
               /\ Some(result[1].segs) = DirOf(args.path)

\* C9's case: a relative path whose ".." climbs past the root.
C9_PopsPastRoot ==
    /\ pc = "done"
    /\ op = "to_lexical_absolute"
    /\ is_relative(args.path)
    /\ args.path.segs = <<"..", "..", "b">>
    /\ cwd = Some(<<"a">>)
    /\ result = Some([abs |-> TRUE, segs |-> <<"b">>])

---------------------------------------------------------------------------
\* What the claims about the naming functions speak of.

Done(name) == pc = "done" /\ op = name

\* The text after the last "/" of a path string.
FinalComponent(s) == SubSeq(s, RFind(s, "/") + 1, Len(s))

\* The text after the last "." of a string.
AfterLastDot(s) == SubSeq(s, RFind(s, ".") + 1, Len(s))

Unsuffixed(base, namespace) ==
    \/ namespace.kind = "NoNamespace"
    \/ namespace.kind = "NamespaceWithEntry" /\ namespace.entry = base

\* What C4 says add_suffix returns.
Suffixed(base, namespace) ==
    IF Unsuffixed(base, namespace) THEN base
    ELSE base \o <<"-">> \o to_suffix(namespace)[1]

\* C4: add_suffix returns base unchanged for NoNamespace and for a
\* NamespaceWithEntry whose entry is base, and base, "-" and the namespace's
\* suffix in every other case; module_name_with_namespace is that result
\* capitalized and file_path_to_compiler_asset_basename is that result for
\* the file stem, not capitalized.
C4_AddSuffix ==
    /\ Done("add_suffix") =>
           /\ result = Suffixed(args.base, args.namespace)
           /\ ~Unsuffixed(args.base, args.namespace) =>
                  SubSeq(result, 1, Len(args.base) + 1) = args.base \o <<"-">>
    /\ Done("module_name_with_namespace") =>
           /\ Len(result) = Len(Suffixed(args.base, args.namespace))
           /\ result[1] = to_uppercase(args.base[1])
           /\ Tail(result) = Tail(Suffixed(args.base, args.namespace))
    /\ (Done("file_path_to_compiler_asset_basename") /\ result # Panic) =>
           result = Suffixed(file_stem(args.path)[1], args.namespace)

\* C4's case: the entry module of a namespace keeps its bare name.
C4_EntryKeepsName ==
    /\ Done("add_suffix")
    /\ args.namespace.kind = "NamespaceWithEntry"
    /\ args.namespace.entry = args.base
    /\ result = args.base

IsAssetCall ==
    pc = "done" /\ op \in {"get_compiler_asset", "get_bs_compiler_asset"} /\ result # Panic

\* C5: in both asset-path variants the basename of the returned path is the
\* file stem alone when the asset kind is "ast" or "iast", and the stem
\* suffixed with the module's namespace for every other kind.
C5_AstIgnoresNamespace ==
    IsAssetCall =>
        LET stem == file_stem(args.path)[1]
            dot == IF op = "get_compiler_asset" THEN <<".">> ELSE <<>>
        IN  FinalComponent(result) =
                (IF args.extension \in AstExtensions THEN stem
                 ELSE Suffixed(stem, args.namespace)) \o dot \o args.extension

\* C5's case: a syntax-tree asset of a module in a real namespace.
C5_AstInNamespace ==
    /\ IsAssetCall
    /\ op = "get_compiler_asset"
    /\ args.extension = <<"a", "s", "t">>
    /\ args.namespace.kind = "Namespace"
    /\ FinalComponent(result) = <<"f", "o", ".", "a", "s", "t">>

IsSyntaxTreeCall ==
    /\ pc = "done"
    /\ \/ op = "get_ast_path"
       \/ op = "get_compiler_asset" /\ args.extension \in AstExtensions
    /\ result # Panic
    /\ extension(args.path) # None

\* The syntax-tree extension of a source file's own extension.
AstExtensionOf(path) ==
    IF Last(extension(path)[1]) = "i" THEN <<"i", "a", "s", "t">> ELSE <<"a", "s", "t">>

\* C6 as claimed: a syntax-tree asset path, from get_ast_path or from
\* get_compiler_asset with "ast" or "iast", carries iast when the source
\* extension ends in i and ast when it does not.
C6_ExtensionFromSource ==
    IsSyntaxTreeCall => AfterLastDot(result) = AstExtensionOf(args.path)

\* C6 as amended: get_ast_path carries iast when the source extension ends
\* in i and ast when it does not; get_compiler_asset with "ast" or "iast"
\* carries the extension it was passed.
C6_ExtensionFromSourceOrArgument ==
    IsSyntaxTreeCall =>
        AfterLastDot(result) =
            IF op = "get_ast_path" THEN AstExtensionOf(args.path) ELSE args.extension

\* C6's case: the syntax tree of an interface file.
C6_InterfaceAst ==
    /\ Done("get_ast_path")
    /\ args.path = <<"s", "/", "f", "o", ".", "r", "e", "s", "i">>
    /\ result = <<"s", "/", "f", "o", ".", "i", "a", "s", "t">>

\* s without one leading "@".
StripOneAt(s) == IF s # <<>> /\ Head(s) = "@" THEN Tail(s) ELSE s

\* s from its first character that is not "@".
StripEveryAt(s) ==
    LET kept == {i \in 1..Len(s) : s[i] # "@"}
    IN  IF kept = {} THEN <<>>
        ELSE SubSeq(s, CHOOSE i \in kept : \A j \in kept : i <= j, Len(s))

\* C7 as claimed: format_namespaced_module_name returns a name without "-"
\* unchanged, and otherwise everything after the first "-" without one
\* leading "@", then ".", then the part before the first "-".
C7_SplitAtFirstDash ==
    Done("format_namespaced_module_name") =>
        LET name == args.module_name
            i == Find(name, "-")
        IN  IF i = 0 THEN result = name
            ELSE result = StripOneAt(SubSeq(name, i + 1, Len(name)))
                              \o <<".">> \o SubSeq(name, 1, i - 1)

\* C7 as amended: format_namespaced_module_name returns a name without "-"
\* unchanged, and otherwise the text between the first "-" and the second
\* (or the end) without any of its leading "@", then ".", then the part
\* before the first "-".
C7_SecondSegment ==
    Done("format_namespaced_module_name") =>
        LET name == args.module_name
            i == Find(name, "-")
            after == SubSeq(name, i + 1, Len(name))
            j == Find(after, "-")
            segment == IF j = 0 THEN after ELSE SubSeq(after, 1, j - 1)
        IN  IF i = 0 THEN result = name
            ELSE result = StripEveryAt(segment) \o <<".">> \o SubSeq(name, 1, i - 1)

\* C7's case: "F-@B" renders as "B.F".
C7_AtStripped ==
    /\ Done("format_namespaced_module_name")
    /\ args.module_name = <<"F", "-", "@", "B">>
    /\ result = <<"B", ".", "F">>

\* A non-empty string of ASCII letters, digits and underscores that starts
\* with a letter.
PlainStem(s) ==
    /\ s # <<>>
    /\ is_ascii_uppercase(s[1]) \/ is_ascii_lowercase(s[1])
    /\ \A i \in 1..Len(s) : is_ascii_alphanumeric(s[i]) \/ s[i] = "_"

\* A module name made from a plain stem, and the stem.
IsModuleNameCall ==
    /\ pc = "done"
    /\ op \in {"module_name_with_namespace", "file_path_to_module_name"}
    /\ result # Panic

StemOfCall == IF op = "module_name_with_namespace" THEN args.base ELSE file_stem(args.path)[1]

\* C10 as claimed: the module name made from a plain stem is non-exotic for
\* every namespace variant.
C10_AlwaysNonExotic ==
    (IsModuleNameCall /\ PlainStem(StemOfCall)) =>
        is_non_exotic_module_name(result) = <<TRUE>>

\* C10 as amended: the module name made from a plain stem is non-exotic
\* exactly when no suffix is appended, that is for NoNamespace and for a
\* NamespaceWithEntry whose entry is the stem; with a suffix it holds a "-"
\* and is_non_exotic_module_name returns false.
C10_NonExoticIffUnsuffixed ==
    (IsModuleNameCall /\ PlainStem(StemOfCall)) =>
        /\ is_non_exotic_module_name(result) = <<Unsuffixed(StemOfCall, args.namespace)>>
        /\ ~Unsuffixed(StemOfCall, args.namespace) => Find(result, "-") = Len(StemOfCall) + 1

\* C10's case: the name of a lower-case file in no namespace.
C10_PlainFile ==
    /\ Done("file_path_to_module_name")
    /\ args.namespace = NoNamespace
    /\ args.path = <<"s", "/", "f", "_", "1", ".", "m", "l">>
    /\ result = <<"F", "_", "1">>
    /\ is_non_exotic_module_name(result) = <<TRUE>>

====
